---- MODULE Spec2Model ----
(***************************************************************************)
(* Model of src/sublime/cli/decorator.py: the decorator stack shared by    *)
(* the enrich, analyze, query and not-implemented subcommands.             *)
(*                                                                         *)
(* One invocation of the program runs one command.  The decorators nest as *)
(*   click.command -> pass_api_client -> echo_result -> handle_exceptions  *)
(*   -> wrapper -> subcommand body                                         *)
(* so in time the steps are: option parsing, pass_api_client, the wrapper  *)
(* with the body call, handle_exceptions' except clauses, the rest of      *)
(* echo_result, and click's exit handling (which closes the context).      *)
(*                                                                         *)
(* Strings that the code takes apart (file names) are sequences of tokens; *)
(* "." and "/" are the tokens os.path looks at.  Python's None is the      *)
(* string None for text values and the empty name NoFile for files.        *)
(***************************************************************************)
EXTENDS Integers, Sequences, FiniteSets, TLC

\* ------------------------------------------------------------------ bounds
MaxPathLen == 5

\* ------------------------------------------------------------------ values
None == "<None>"
NoFile == << >>

PathTokens == {"report", "eml", ".", "/"}

RECURSIVE SeqsUpTo(_, _)
SeqsUpTo(S, n) ==
    IF n = 0 THEN {<< >>}
    ELSE LET shorter == SeqsUpTo(S, n - 1)
         IN  shorter \cup {Append(s, t) : s \in {x \in shorter : Len(x) = n - 1}, t \in S}

\* Python's `not x` for an optional string
Falsy(x) == x = None \/ x = ""

\* ----------------------------------------------------------- os.path (posix)
\* str.rfind, 1-based; 0 when the token does not occur
RFind(p, c) ==
    LET hits == {i \in 1..Len(p) : p[i] = c}
    IN  IF hits = {} THEN 0 ELSE CHOOSE i \in hits : \A j \in hits : j <= i

\* os.path.splitext(p)[0]: cut at the last dot of the last component, unless
\* only dots precede it in that component
SplitextRoot(p) ==
    LET sepIndex == RFind(p, "/")
        dotIndex == RFind(p, ".")
    IN  IF /\ dotIndex > sepIndex
           /\ \E k \in (sepIndex + 1)..(dotIndex - 1) : p[k] # "."
        THEN SubSeq(p, 1, dotIndex - 1)
        ELSE p

\* os.path.basename(p)
Basename(p) == SubSeq(p, RFind(p, "/") + 1, Len(p))

\* Names click.File() can open for reading: a non-empty path whose last
\* component is a file name
InputPaths ==
    {p \in SeqsUpTo(PathTokens, MaxPathLen) :
        /\ p # << >>
        /\ p[Len(p)] # "/"
        /\ Basename(p) \notin {<<".">>, <<".", ".">>}}

ExplicitOutput == <<"out", ".", "json">>
ExplicitDetections == <<"rules", ".", "pql">>
DefaultDetections == <<"detections", ".", "pql">>

VARIABLES
    pc,          \* position in the decorator stack
    command,     \* context.command.name / function.__name__
    params,      \* context.params
    config,      \* load_config()
    pqlExists,   \* detections.pql exists in the current directory
    client,      \* the Sublime(api_key=...) instance, NoClient before
    calls,       \* times the subcommand body / the probe was invoked
    bodyArgs,    \* keyword arguments the analyze body received
    result,      \* value returned by the body
    thrown,      \* what the body / the probe call raised
    raised,      \* exception in flight
    io,          \* everything emitted, in order
    created,     \* names of files opened for writing
    openHandles, \* file handles currently open
    onClose,     \* handles click's context closes on exit
    exitCode     \* process exit status: {} while running, {status} after

vars == <<pc, command, params, config, pqlExists, client, calls, bodyArgs,
          result, thrown, raised, io, created, openHandles, onClose, exitCode>>

NoClient == [constructed |-> FALSE, api_key |-> None]
NoException == [type |-> "None", args |-> << >>]
NoResult == [none |-> TRUE]
NoParams == [api_key |-> None, input_file |-> NoFile, output_file |-> NoFile,
             output_format |-> None, detections_file |-> NoFile,
             detection_str |-> None]
NoArgs == [detections_file |-> NoFile, detection_str |-> None]

\* ------------------------------------------------------------ input domains
FlagKeys == {None, "", "flag-key"}
ConfigKeys == {"", "file-key"}
OutputFormats == {"json", "txt"}
DetectionStrs == {None, "", "rule"}
NotImplementedNames == {"listen"}

\* What the API client raises; Arg(e, i) is Python's e.args[i]
RateLimitError == [type |-> "RateLimitError",
                   args |-> <<[detail |-> "rate limit exceeded"]>>]
RequestFailure == [type |-> "RequestFailure",
                   args |-> <<[status |-> 400], [detail |-> "bad request"]>>]
RequestException == [type |-> "RequestException",
                     args |-> <<[message |-> "connection refused"]>>]
ApiFailures == {RateLimitError, RequestFailure, RequestException}
Arg(exception, i) == exception.args[i + 1]
Str(exception) == exception.args[1].message

Exit(code) == [type |-> "Exit", args |-> <<[code |-> code]>>]

\* What the API returns: enrich a composite, the others a single payload
EnrichResult == [message_data_model |-> [payload |-> "mdm"], details |-> "aux"]
PayloadResult == [payload |-> "result"]
ResultOf(name) == IF name = "enrich" THEN EnrichResult ELSE PayloadResult

Handle(name, role) == [name |-> name, role |-> role]
Event(chan, name, text) == [chan |-> chan, name |-> name, text |-> text]
Echo(text) == Event("stdout", NoFile, text)

Init ==
    /\ pc = "start"
    /\ command = None
    /\ params = NoParams
    /\ config \in [api_key : ConfigKeys]
    /\ pqlExists \in BOOLEAN
    /\ client = NoClient
    /\ calls = 0
    /\ bodyArgs = NoArgs
    /\ result = NoResult
    /\ thrown = NoException
    /\ raised = NoException
    /\ io = << >>
    /\ created = {}
    /\ openHandles = {}
    /\ onClose = {}
    /\ exitCode = {}

\* ------------------------------------------------------------ option parsing
\* click.File() opens a file to read at once, click.File(mode="w") lazily at the
\* first write; both are closed when the context closes.
Registered(p) ==
    {Handle(p.input_file, "input_file")}
      \cup (IF p.output_file # NoFile
            THEN {Handle(p.output_file, "output_file")} ELSE {})
      \cup (IF p.detections_file # NoFile
            THEN {Handle(p.detections_file, "detections_file")} ELSE {})

OpenedAtParse(p) == {h \in Registered(p) : h.role # "output_file"}

Parse(name, p) ==
    /\ pc = "start"
    /\ pc' = "pass_api_client"
    /\ command' = name
    /\ params' = p
    /\ openHandles' = OpenedAtParse(p)
    /\ onClose' = Registered(p)
    /\ UNCHANGED <<config, pqlExists, client, calls, bodyArgs, result, thrown,
                   raised, io, created, exitCode>>

enrich_command ==
    /\ pc = "start"
    /\ \E k \in FlagKeys, i \in InputPaths, o \in {NoFile, ExplicitOutput},
       f \in OutputFormats :
        Parse("enrich", [NoParams EXCEPT !.api_key = k, !.input_file = i,
                                         !.output_file = o, !.output_format = f])

analyze_command ==
    /\ pc = "start"
    /\ \E k \in FlagKeys, o \in {NoFile, ExplicitOutput}, f \in OutputFormats,
       D \in {NoFile, ExplicitDetections}, d \in DetectionStrs :
        Parse("analyze", [NoParams EXCEPT !.api_key = k,
                                          !.input_file = <<"report", ".", "eml">>,
                                          !.output_file = o, !.output_format = f,
                                          !.detections_file = D,
                                          !.detection_str = d])

query_command ==
    /\ pc = "start"
    /\ \E k \in FlagKeys, o \in {NoFile, ExplicitOutput}, f \in OutputFormats :
        Parse("query", [NoParams EXCEPT !.api_key = k,
                                        !.input_file = <<"report", ".", "mdm">>,
                                        !.output_file = o, !.output_format = f])

\* The placeholder commands declare no option at all, -k included
not_implemented_command ==
    \E name \in NotImplementedNames :
        /\ pc = "start"
        /\ pc' = "pass_api_client"
        /\ command' = name
        /\ UNCHANGED <<params, config, pqlExists, client, calls, bodyArgs, result,
                       thrown, raised, io, created, openHandles, onClose,
                       exitCode>>

\* ---------------------------------------------------------- pass_api_client
ApiKeyHelp ==
    [kind |-> "api_key_help",
     sources |-> <<"-k/--api-key", "SUBLIME_API_KEY", "setup">>]

\* the test that guards the help message and context.exit(-1)
ApiKeyNotFound(api_key, cfg) == api_key = None /\ cfg.api_key = ""

ResolveApiKey(api_key, cfg) == IF api_key = None THEN cfg.api_key ELSE api_key

pass_api_client ==
    /\ pc = "pass_api_client"
    /\ IF ApiKeyNotFound(params.api_key, config)
       THEN /\ io' = Append(io, Echo(ApiKeyHelp))
            /\ raised' = Exit(-1)
            /\ pc' = "click_main"
            /\ UNCHANGED client
       ELSE /\ client' = [constructed |-> TRUE,
                          api_key |-> ResolveApiKey(params.api_key, config)]
            /\ pc' = "wrapper"
            /\ UNCHANGED <<io, raised>>
    /\ UNCHANGED <<command, params, config, pqlExists, calls, bodyArgs, result,
                   thrown, created, openHandles, onClose, exitCode>>

\* ------------------------------------------------- wrappers and the body call
\* The body is the API client's operation: it returns a result or raises.
BodyOutcomes(name) ==
    {[result |-> ResultOf(name), raised |-> NoException]}
      \cup {[result |-> NoResult, raised |-> e] : e \in ApiFailures}

CallBody(kwargs) ==
    \E outcome \in BodyOutcomes(command) :
        /\ calls' = calls + 1
        /\ bodyArgs' = kwargs
        /\ result' = outcome.result
        /\ thrown' = outcome.raised
        /\ raised' = outcome.raised

\* enrich_command.wrapper and query_command.wrapper only call the body
enrich_wrapper ==
    /\ pc = "wrapper"
    /\ command = "enrich"
    /\ CallBody(NoArgs)
    /\ pc' = "handle_exceptions"
    /\ UNCHANGED <<command, params, config, pqlExists, client, io, created,
                   openHandles, onClose, exitCode>>

query_wrapper ==
    /\ pc = "wrapper"
    /\ command = "query"
    /\ CallBody(NoArgs)
    /\ pc' = "handle_exceptions"
    /\ UNCHANGED <<command, params, config, pqlExists, client, io, created,
                   openHandles, onClose, exitCode>>

MissingDetectionInputMessage ==
    <<"You must specify either a .pql detections file (", "-D",
      ") or a raw detection (", "-d", ")">>

MissingDetectionInput ==
    [type |-> "MissingDetectionInput",
     args |-> <<[message |-> MissingDetectionInputMessage]>>]

\* the test that sends analyze to the default detections file
NoDetectionGiven(kwargs) ==
    kwargs.detections_file = NoFile /\ Falsy(kwargs.detection_str)

\* variant: FileNotFoundError is swallowed instead of raising
\* MissingDetectionInput
OpenDefaultDetections_Swallowed(exists) == NoException

\* click.open_file("detections.pql"): the exception it ends in, if any
OpenDefaultDetections(exists) ==
    IF exists THEN NoException ELSE MissingDetectionInput

analyze_wrapper ==
    /\ pc = "wrapper"
    /\ command = "analyze"
    /\ pc' = "handle_exceptions"
    /\ LET kwargs == [detections_file |-> params.detections_file,
                      detection_str |-> params.detection_str]
       IN  IF NoDetectionGiven(kwargs)
           THEN IF OpenDefaultDetections(pqlExists) = NoException
                THEN /\ openHandles' = openHandles
                            \cup {Handle(DefaultDetections, "default_detections")}
                     /\ CallBody([kwargs EXCEPT
                                     !.detections_file = DefaultDetections])
                ELSE /\ raised' = OpenDefaultDetections(pqlExists)
                     /\ UNCHANGED <<openHandles, calls, bodyArgs, result, thrown>>
           ELSE /\ CallBody(kwargs)
                /\ UNCHANGED openHandles
    /\ UNCHANGED <<command, params, config, pqlExists, client, io, created,
                   onClose, exitCode>>

\* -------------------------------------------------------- handle_exceptions
\* variant: the last clause, `except RequestException`, is missing
Classified_NoTransport(exception) ==
    exception.type \in {"RateLimitError", "RequestFailure"}

\* the except clauses, in order
Classified(exception) ==
    exception.type \in {"RateLimitError", "RequestFailure", "RequestException"}

ErrorDetail(exception) ==
    IF exception.type = "RateLimitError" THEN Arg(exception, 0).detail
    ELSE IF exception.type = "RequestFailure" THEN Arg(exception, 1).detail
    ELSE Str(exception)

ApiError(detail) == [kind |-> "api_error", prefix |-> "API error: ",
                     detail |-> detail]

handle_exceptions ==
    /\ pc = "handle_exceptions"
    /\ IF raised = NoException
       THEN /\ pc' = "echo_result"
            /\ UNCHANGED <<io, raised>>
       ELSE IF Classified(raised)
       THEN /\ io' = Append(io, Event("log", NoFile, ApiError(ErrorDetail(raised))))
            /\ raised' = Exit(-1)
            /\ pc' = "click_main"
       ELSE /\ pc' = "click_main"
            /\ UNCHANGED <<io, raised>>
    /\ UNCHANGED <<command, params, config, pqlExists, client, calls, bodyArgs,
                   result, thrown, created, openHandles, onClose, exitCode>>

\* --------------------------------------------------------------- echo_result
\* FORMATTERS[output_format], then [command name] when the entry is a dict
Formatter(output_format, name) ==
    IF output_format = "txt" THEN <<"txt", name>> ELSE <<output_format>>

\* formatter(result, verbose).strip("\n"); no command declares a verbose option
Render(formatter, res) ==
    [kind |-> "render", formatter |-> formatter, result |-> res,
     verbose |-> FALSE]

\* variant: os.path.basename is not applied
OutputFileName_KeepsDirectory(input_file_name, output_format) ==
    LET input_file_name_no_ext == SplitextRoot(input_file_name)
    IN  IF output_format = "json" THEN input_file_name_no_ext \o <<".", "mdm">>
        ELSE IF output_format = "txt" THEN input_file_name_no_ext \o <<".", "txt">>
        ELSE input_file_name_no_ext

\* the name enrich gives the file it opens when no -o was given
OutputFileName(input_file_name, output_format) ==
    LET input_file_name_no_ext == Basename(SplitextRoot(input_file_name))
    IN  IF output_format = "json" THEN input_file_name_no_ext \o <<".", "mdm">>
        ELSE IF output_format = "txt" THEN input_file_name_no_ext \o <<".", "txt">>
        ELSE input_file_name_no_ext

\* variant: the result is narrowed before the details are rendered
DetailsView_Narrowed(res) ==
    Render(<<"txt", "enrich_details">>, res.message_data_model)

\* the detail view enrich always prints to the console
DetailsView(res) == Render(<<"txt", "enrich_details">>, res)

\* result["message_data_model"] for enrich, the result itself otherwise
Narrowed(name, res) == IF name = "enrich" THEN res.message_data_model ELSE res

\* click.echo(output, file=params.get("output_file", ...)); None is stdout
Emit(output_file, output) ==
    IF output_file # NoFile THEN Event("file", output_file, output)
    ELSE Echo(output)

\* variant: the line is printed without the `if file_name` test
Confirmation_Always(file_name) ==
    <<Echo([kind |-> "saved", prefix |-> "Output saved to ", name |-> file_name])>>

\* the "Output saved to" line
Confirmation(file_name) ==
    IF file_name # NoFile
    THEN <<Echo([kind |-> "saved", prefix |-> "Output saved to ",
                 name |-> file_name])>>
    ELSE << >>

echo_result ==
    /\ pc = "echo_result"
    /\ LET synthesized == command = "enrich" /\ params.output_file = NoFile
           output_file ==
               IF synthesized
               THEN OutputFileName(params.input_file, params.output_format)
               ELSE params.output_file
           details ==
               IF command = "enrich" THEN <<Echo(DetailsView(result))>> ELSE << >>
           output ==
               Render(Formatter(params.output_format, command),
                      Narrowed(command, result))
       IN  /\ params' = [params EXCEPT !.output_file = output_file]
           /\ result' = Narrowed(command, result)
           /\ io' = io \o details \o <<Emit(output_file, output)>>
                       \o Confirmation(output_file)
           /\ created' = IF output_file # NoFile
                         THEN created \cup {output_file} ELSE created
           /\ openHandles' =
                 IF output_file = NoFile THEN openHandles
                 ELSE openHandles \cup
                        {Handle(output_file,
                                IF synthesized THEN "synthesized_output"
                                ELSE "output_file")}
    /\ pc' = "click_main"
    /\ UNCHANGED <<command, config, pqlExists, client, calls, bodyArgs, thrown,
                   raised, onClose, exitCode>>

\* --------------------------------------------------- not_implemented_command
SubcommandNotImplemented(subcommand_name) ==
    [type |-> "SubcommandNotImplemented",
     args |-> <<[message |-> <<"'", subcommand_name,
                               "' subcommand is not implemented yet.">>]>>]

\* variant: the except clause names RateLimitError instead of RequestFailure
CaughtAsRequestFailure_WrongClass(exception, rateLimitIsRequestFailure) ==
    exception.type = "RateLimitError"

\* `except RequestFailure`; whether RateLimitError derives from RequestFailure
\* is decided in sublime.exceptions
CaughtAsRequestFailure(exception, rateLimitIsRequestFailure) ==
    \/ exception.type = "RequestFailure"
    \/ exception.type = "RateLimitError" /\ rateLimitIsRequestFailure

not_implemented_wrapper ==
    /\ pc = "wrapper"
    /\ command \in NotImplementedNames
    /\ \E outcome \in {NoException} \cup ApiFailures, sub \in BOOLEAN :
          /\ calls' = calls + 1
          /\ thrown' = outcome
          /\ raised' = IF outcome = NoException THEN NoException
                       ELSE IF CaughtAsRequestFailure(outcome, sub)
                       THEN SubcommandNotImplemented(command)
                       ELSE outcome
    /\ pc' = "click_main"
    /\ UNCHANGED <<command, params, config, pqlExists, client, bodyArgs, result,
                   io, created, openHandles, onClose, exitCode>>

\* ------------------------------------------------------------- click's main
IsClickException(exception) ==
    exception.type \in {"MissingDetectionInput", "SubcommandNotImplemented"}

\* What click.command's main does with the outcome of the callback: Exit
\* carries the status, a ClickException is shown and exits 1, any other
\* exception ends the process with a traceback; leaving the context closes the
\* files the options opened.
click_main ==
    /\ pc = "click_main"
    /\ IF raised = NoException
       THEN /\ exitCode' = {0}
            /\ UNCHANGED io
       ELSE IF raised.type = "Exit"
       THEN /\ exitCode' = {Arg(raised, 0).code}
            /\ UNCHANGED io
       ELSE IF IsClickException(raised)
       THEN /\ exitCode' = {1}
            /\ io' = Append(io, Event("stderr", NoFile,
                                      [kind |-> "usage_error",
                                       message |-> Arg(raised, 0).message]))
       ELSE /\ exitCode' = {1}
            /\ io' = Append(io, Event("stderr", NoFile,
                                      [kind |-> "traceback",
                                       exception |-> raised.type]))
    /\ openHandles' = openHandles \ onClose
    /\ pc' = "exited"
    /\ UNCHANGED <<command, params, config, pqlExists, client, calls, bodyArgs,
                   result, thrown, raised, created, onClose>>

Next ==
    \/ enrich_command
    \/ analyze_command
    \/ query_command
    \/ not_implemented_command
    \/ pass_api_client
    \/ enrich_wrapper
    \/ query_wrapper
    \/ analyze_wrapper
    \/ handle_exceptions
    \/ echo_result
    \/ not_implemented_wrapper
    \/ click_main

Spec == Init /\ [][Next]_vars

\* ===================================================================== claims
On(chan) == SelectSeq(io, LAMBDA e : e.chan = chan)
OfKind(kind) == SelectSeq(io, LAMBDA e : e.text.kind = kind)
Pipeline == {"enrich", "analyze", "query"}
ExitedNonZero == pc = "exited" /\ exitCode # {} /\ 0 \notin exitCode
\* the run got past the body and echo_result without an exception
Succeeded ==
    /\ command \in Pipeline
    /\ pc \in {"click_main", "exited"}
    /\ calls = 1
    /\ thrown = NoException
\* -o was given: click registered the file it names with the context
ExplicitOutputGiven == \E h \in onClose : h.role = "output_file"

\* C1: when the body of enrich, analyze or query raises RateLimitError,
\* RequestFailure or another RequestException, nothing ever reaches standard
\* output or a file and no file is created, and once the process has exited
\* the log holds exactly one line "API error: <detail>", <detail> being
\* args[0]["detail"], args[1]["detail"] or str(exception) respectively, and
\* the exit status is not zero.
C1_ClassifiedFailureIsTerminal ==
    (command \in Pipeline /\ thrown \in ApiFailures) =>
        /\ On("stdout") = << >>
        /\ On("file") = << >>
        /\ created = {}
        /\ pc = "exited" =>
              /\ ExitedNonZero
              /\ OfKind("api_error") = On("log")
              /\ On("log") =
                    <<Event("log", NoFile,
                            [kind |-> "api_error", prefix |-> "API error: ",
                             detail |->
                                CASE thrown.type = "RateLimitError" ->
                                         thrown.args[1].detail
                                  [] thrown.type = "RequestFailure" ->
                                         thrown.args[2].detail
                                  [] OTHER -> thrown.args[1].message])>>

C1_Witness ==
    /\ pc = "exited"
    /\ command = "enrich"
    /\ thrown = RequestException
    /\ ExplicitOutputGiven
    /\ Len(On("log")) = 1

\* C2: once pass_api_client has run, either the client was built with a
\* non-empty key, or it was not built, the help message naming the three
\* sources was printed, the body was never invoked and the exit status is not
\* zero.
C2_ClientKeyNonEmpty ==
    pc \notin {"start", "pass_api_client"} =>
        \/ client.constructed /\ ~Falsy(client.api_key)
        \/ /\ ~client.constructed
           /\ On("stdout") = <<Echo(ApiKeyHelp)>>
           /\ Len(ApiKeyHelp.sources) = 3
           /\ calls = 0
           /\ pc = "exited" => ExitedNonZero

\* C3: the client is built with the highest-precedence non-empty source: the
\* -k flag when it holds a key, else the key load_config returns.
C3_HighestPrecedenceSource ==
    client.constructed =>
        client.api_key = IF ~Falsy(params.api_key) THEN params.api_key
                         ELSE config.api_key

\* C4 as stated: analyze with neither -D nor -d and no detections.pql ends
\* with a non-zero status and a usage message naming -D and -d, the body never
\* invoked, no "API error:" line and nothing rendered.
MissingInputOutcome ==
    /\ ExitedNonZero
    /\ \E i \in 1..Len(io) :
          /\ io[i].chan = "stderr"
          /\ io[i].text.kind = "usage_error"
          /\ \E a, b \in 1..Len(io[i].text.message) :
                io[i].text.message[a] = "-D" /\ io[i].text.message[b] = "-d"
    /\ calls = 0
    /\ OfKind("api_error") = << >>
    /\ OfKind("render") = << >>
    /\ OfKind("saved") = << >>
    /\ created = {}

NoDetectionNoDefault ==
    /\ pc = "exited"
    /\ command = "analyze"
    /\ params.detections_file = NoFile
    /\ params.detection_str = None
    /\ ~pqlExists

C4_Original == NoDetectionNoDefault => MissingInputOutcome

\* C4 amended: the same, provided pass_api_client found an API key (the -k
\* flag was given or load_config returned a key); without one the run ends in
\* pass_api_client with the API-key help message instead.
C4_MissingDetectionInput ==
    (NoDetectionNoDefault /\ (params.api_key # None \/ config.api_key # "")) =>
        MissingInputOutcome

C4_Witness ==
    /\ NoDetectionNoDefault
    /\ client.constructed
    /\ exitCode = {1}
    /\ calls = 0

C6_DetailsThenFile ==
    (Succeeded /\ command = "enrich") =>
        /\ Len(io) >= 2
        /\ io[1] = Event("stdout", NoFile,
                         [kind |-> "render",
                          formatter |-> <<"txt", "enrich_details">>,
                          result |-> EnrichResult, verbose |-> FALSE])
        /\ io[2].chan = "file"
        /\ io[2].text.kind = "render"
        /\ io[2].text.result = EnrichResult.message_data_model
        /\ io[2].text.formatter =
              IF params.output_format = "json" THEN <<"json">>
              ELSE <<"txt", "enrich">>

C6_Witness ==
    /\ Succeeded
    /\ command = "enrich"
    /\ ExplicitOutputGiven
    /\ params.output_format = "json"
    /\ Len(On("stdout")) = 2
    /\ Len(On("file")) = 1

NotImplementedOutcome ==
    /\ ExitedNonZero
    /\ On("stderr") =
          <<Event("stderr", NoFile,
                  [kind |-> "usage_error",
                   message |-> <<"'", command,
                                 "' subcommand is not implemented yet.">>])>>
    /\ OfKind("traceback") = << >>
    /\ OfKind("api_error") = << >>

ProbeDone ==
    /\ pc = "exited"
    /\ command \in NotImplementedNames
    /\ client.constructed

C8_Original ==
    ProbeDone => /\ calls = 1
                 /\ thrown # NoException => NotImplementedOutcome

\* C8 amended: the probe is called exactly once, and when it fails with a
\* RequestFailure the run ends in that usage error with a non-zero status; a
\* failure that is not a RequestFailure is not caught.
C8_ProbeFailureIsNotImplemented ==
    ProbeDone => /\ calls = 1
                 /\ thrown.type = "RequestFailure" => NotImplementedOutcome

C8_Witness ==
    /\ ProbeDone
    /\ thrown = RequestFailure
    /\ exitCode = {1}

\* C9: when the process has exited, on whatever path, no file handle the run
\* opened is still open.
C9_AllHandlesReleased == pc = "exited" => openHandles = {}

\* C10: whenever the analyze body was invoked, exactly one of the detections
\* source and the raw detection text is set in its arguments; with neither -D
\* nor -d the source is the default detections.pql, opened for the call, and
\* detections.pql is not opened when -D or -d was supplied.
C10_ExactlyOneDetectionInput ==
    (command = "analyze" /\ calls >= 1) =>
        LET defaultOpened ==
                \E h \in openHandles : h.role = "default_detections"
        IN  /\ (bodyArgs.detections_file # NoFile)
                  # (bodyArgs.detection_str # None)
            /\ (params.detections_file = NoFile /\ params.detection_str = None)
                  => (pc # "exited" => defaultOpened)
                     /\ bodyArgs.detections_file = DefaultDetections
            /\ (params.detections_file # NoFile \/ params.detection_str # None)
                  => ~defaultOpened

====
